---- MODULE Spec2Model ----
(***************************************************************************)
(* A model of dr_wrapper's demandtools_wrapper.py:                         *)
(*   - DemandToolsExceptionFactory, the classifier of the engine's         *)
(*     standard-error text (specification SpecClassify);                   *)
(*   - DemandToolsCommand, its constructor and its run method with the     *)
(*     recursive retry (specification SpecRun);                            *)
(*   - LogWatcher, its thread body, its stop method and the module-level   *)
(*     print_lock shared with the runners' _print (specifications          *)
(*     SpecWatch, SpecWatchMain and, with the scheduler's fairness,        *)
(*     FairSpecWatchAlone);                                                *)
(*   - the normalisation of a log line taken alone (SpecNormalise).        *)
(***************************************************************************)
EXTENDS Integers, Sequences, FiniteSets

VARIABLES
    \* ---- DemandToolsExceptionFactory
    demand_tools_stderr_string, \* the argument of the factory
    factory_result,             \* the class it returned, "none" before the call
    \* ---- the normalisation of one log line (lines 84-94 of LogWatcher.run)
    raw_line,        \* the line file.readline() returned
    line_limit,      \* self.max_line_length
    payload,         \* what follows 'DTLog>>> ' in the line printed
    norm_pc,         \* "idle", "read" (the line is read), "printed"
    \* ---- one DemandToolsCommand and the call of its run method
    args,            \* the constructor's arguments, kept as the fields of self
    cmd_pc,          \* where the object is: see CmdStates
    retried_count,   \* self._retried_count
    raised,          \* the class of the exception that left __init__ or run
    input_exists,    \* os.path.exists(self.input_file), the file system's say
    frames,          \* the frames of run on the stack (1 + recursive retries)
    run_calls,       \* the calls of run made on the object so far
    retried_at_start,\* self._retried_count when the current call began
    outcomes,        \* per child of the current call: the class of its failure or Clean
    printed,         \* what the current call has handed to print, in order
    children,        \* the children the current call has spawned
    callbacks,       \* the invocations of post_run_func in the current call
    last_child,      \* what communicate() returned in the frame of the current
                     \* attempt, and the child's exit code
    raised_message,  \* the message of the exception that left run
    \* ---- one LogWatcher, the callers of its stop, the log file, the sink's writers
    wpc,             \* where the watcher thread is in run
    organization_id, \* whether organization_id was given
    stop_event,      \* self._stop_event
    where,           \* the local where of run: file.tell() before the last readline
    line,            \* the line last read
    opened,          \* the watcher has opened the log file
    forwarded,       \* the payloads of the 'DTLog>>> ' lines printed, in order
    sleeps_since_stop, \* the sleeps of the watcher that ended with the signal set (counted up to 2)
    set_while_waiting, \* stop has set the signal with the watcher in WaitingForFile
    file_pos,        \* the position of the open log file
    len_at_open,     \* the length of the log file when the watcher opened it
    listed,          \* what os.listdir of the base directory gave: "unread", "some", "none"
    stop_notices,    \* the stop notices printed
    initialized_printed, \* the "initialized" line has been printed
    log_exists,      \* the log file exists
    log_file,        \* its characters
    print_lock,      \* per process, the holder of its print_lock
    stop_pc,         \* where the caller of stop is in stop
    stop_calls,      \* the calls of stop begun
    rpc,             \* per runner: unstarted, running, print (inside the lock)
    rhost,           \* per runner: the process its run method executes in
    rprints          \* per runner: the lines printed

clsVars == <<demand_tools_stderr_string, factory_result>>
normVars == <<raw_line, line_limit, payload, norm_pc>>
funVars == <<clsVars, normVars>>

cmdVars == <<args, cmd_pc, retried_count, raised, input_exists, frames, run_calls,
             retried_at_start, outcomes, printed, children, callbacks, last_child,
             raised_message>>

watchVars == <<wpc, organization_id, stop_event, where, line, opened, forwarded,
               sleeps_since_stop, set_while_waiting, file_pos, len_at_open, listed>>
tailVars == <<file_pos, len_at_open>>
sinkVars == <<stop_notices, initialized_printed>>
envVars == <<log_exists, log_file>>
stopVars == <<stop_pc, stop_calls>>
runnerVars == <<rpc, rhost, rprints>>
lockVars == <<print_lock>>
allWatchVars == <<watchVars, sinkVars, envVars, stopVars, runnerVars, lockVars>>

vars == <<funVars, cmdVars, allWatchVars>>

----------------------------------------------------------------------------
(* The exception classes of the module.                                    *)

DemandToolsException == "DemandToolsException"
DemandToolsMultiProcessDBWriteConflictException == "DemandToolsMultiProcessDBWriteConflictException"
DemandToolsObjectReferenceException == "DemandToolsObjectReferenceException"
DemandToolsCommandException == "DemandToolsCommandException"
DemandToolsInputFileDoesNotExist == "DemandToolsInputFileDoesNotExist"

----------------------------------------------------------------------------
(* DemandToolsExceptionFactory.  A text is a sequence of words; each of    *)
(* the three sentences the factory looks for is two words long, so that    *)
(* "content in demand_tools_stderr_string" is a real substring test: the   *)
(* two halves of a sentence may be present without the sentence.           *)

SentenceUsedByAnother == <<"because it is being used", "by another process">>
SentenceCannotAccess == <<"The process cannot", "access the file">>
SentenceObjectReference == <<"Object reference not set", "to an instance of an object">>

OtherWord == "..."

Words ==
    {SentenceUsedByAnother[1], SentenceUsedByAnother[2],
     SentenceCannotAccess[1], SentenceCannotAccess[2],
     SentenceObjectReference[1], SentenceObjectReference[2],
     OtherWord}

\* the longest text SpecClassify classifies: three sentences fit in 6 words
MaxTextLen == 6

SeqsUpTo(S, n) == UNION {[1..k -> S] : k \in 0..n}

\* Python's "content in text" on strings
StrContains(text, content) ==
    \E i \in 1..(Len(text) - Len(content) + 1) :
        SubSeq(text, i, i + Len(content) - 1) = content

\* a faulty variant: any() where the code has all()
sentences_any_in_demand_tools_stderr(sentences, text) ==
    \E index \in 1..Len(sentences) : StrContains(text, sentences[index])

sentences_in_demand_tools_stderr(sentences, text) ==
    LET is_present == [index \in 1..Len(sentences) |->
                          StrContains(text, sentences[index])]
    IN  \A index \in 1..Len(sentences) : is_present[index]

is_db_access_collision_exception(text) ==
    sentences_in_demand_tools_stderr(
        <<SentenceUsedByAnother, SentenceCannotAccess>>, text)

is_object_reference_exception(text) ==
    sentences_in_demand_tools_stderr(<<SentenceObjectReference>>, text)

DemandToolsExceptionFactory(text) ==
    IF is_db_access_collision_exception(text)
    THEN DemandToolsMultiProcessDBWriteConflictException
    ELSE IF is_object_reference_exception(text)
    THEN DemandToolsObjectReferenceException
    ELSE DemandToolsCommandException

ClassifyIdle ==
    /\ demand_tools_stderr_string = <<>>
    /\ factory_result = "none"

----------------------------------------------------------------------------
(* DemandToolsCommand: the constructor.                                    *)

\* the greatest retry_count a caller passes, the most entries of
\* exceptions_to_retry_on, and the calls of run made on one object
MaxRetryCount == 2
MaxRetrySet == 2
MaxRunCalls == 2

\* entries a caller may put in exceptions_to_retry_on: the module's classes,
\* another subclass of Exception, a class that is no exception, and a value
\* that is no class at all
ValueError == "ValueError"
IntClass == "int"
NotAClass == "'not a class'"
TypeError == "TypeError"

FailureCategories ==
    {DemandToolsMultiProcessDBWriteConflictException,
     DemandToolsObjectReferenceException,
     DemandToolsInputFileDoesNotExist,
     DemandToolsCommandException}

RetryEntries == FailureCategories \cup {ValueError, IntClass, NotAClass}

ExceptionSubclasses == FailureCategories \cup {DemandToolsException, ValueError}

demand_tool_extension ==
    [dedupe |-> ".STDxml", mass_effect |-> ".MExml",
     mass_effect_export |-> ".DExml", bulk_backup |-> ".BBxml"]

\* the keys of _scenario_types, the reverse of _demand_tool_extension
scenario_types == {demand_tool_extension[k] : k \in DOMAIN demand_tool_extension}

\* a path is its base name and its extension; the empty path is None
NoPath == [name |-> "", ext |-> ""]
ScenarioPaths == {NoPath, [name |-> "dupes", ext |-> ".STDxml"],
                  [name |-> "dupes", ext |-> ".txt"]}

NoInputFile == ""
InputFiles == {NoInputFile, "input.csv"}

ArgsSpace ==
    [scenario_path : ScenarioPaths,
     input_file : InputFiles,
     post_run_func : BOOLEAN,
     exceptions_to_retry_on :
         {s \in SUBSET RetryEntries : Cardinality(s) <= MaxRetrySet},
     retry_count : (0 - 1)..MaxRetryCount]

NoArgs ==
    [scenario_path |-> NoPath, input_file |-> NoInputFile, post_run_func |-> FALSE,
     exceptions_to_retry_on |-> {}, retry_count |-> 0]

Clean == "clean"
NoChild == [stdout |-> <<>>, stderr |-> <<>>, returncode |-> 0]

CmdIdle ==
    /\ args = NoArgs
    /\ cmd_pc = "new"
    /\ retried_count = 0
    /\ raised = "none"
    /\ input_exists = TRUE
    /\ frames = 0
    /\ run_calls = 0
    /\ retried_at_start = 0
    /\ outcomes = <<>>
    /\ printed = <<>>
    /\ children = 0
    /\ callbacks = 0
    /\ last_child = NoChild
    /\ raised_message = <<>>

\* issubclass(e, Exception) for a class e
issubclass_Exception(e) == e \in ExceptionSubclasses

\* a faulty variant: any() where the code has all()
some_inherit_from_exception(entries) == \E e \in entries : issubclass_Exception(e)

\* all([issubclass(e,Exception) for e in self.exceptions_to_retry_on])
all_inherit_from_exception(entries) == \A e \in entries : issubclass_Exception(e)

\* a faulty variant: the check of one direction only
retry_set_without_count(entries, count) == entries # {} /\ count = 0

\* bool(self.exceptions_to_retry_on) is not bool(self.retry_count)
retry_policy_mismatch(entries, count) == (entries # {}) # (count # 0)

\* the class of the exception that leaves __init__, "none" when it returns
CtorRaises(a) ==
    IF a.scenario_path = NoPath THEN DemandToolsCommandException
    ELSE IF \E e \in a.exceptions_to_retry_on : e = NotAClass THEN TypeError
    ELSE IF ~all_inherit_from_exception(a.exceptions_to_retry_on)
         THEN DemandToolsCommandException
    ELSE IF retry_policy_mismatch(a.exceptions_to_retry_on, a.retry_count)
         THEN DemandToolsCommandException
    ELSE IF a.scenario_path.ext \notin scenario_types
         THEN DemandToolsCommandException
    ELSE "none"

Construct(a) ==
    /\ cmd_pc = "new"
    /\ args' = a
    /\ retried_count' = 0
    /\ raised' = CtorRaises(a)
    /\ cmd_pc' = IF CtorRaises(a) = "none" THEN "idle" ELSE "ctor_raised"
    /\ UNCHANGED <<input_exists, frames, run_calls, retried_at_start, outcomes,
                   printed, children, callbacks, last_child, raised_message,
                   funVars, allWatchVars>>

----------------------------------------------------------------------------
(* DemandToolsCommand.run.  One call is a chain of attempts; an attempt is  *)
(* the body of run up to Popen (RunAttempt), then the child's exit and what *)
(* run makes of it (ChildExits).  The recursive self.run() of a retry adds  *)
(* a frame, which returns at once when the inner call returns.              *)
(* psutil's nice() is taken to succeed, debug to be off (no line for the    *)
(* argument list) and post_run_func to return; _print and raise_exception   *)
(* are atomic here, their locking is modelled with the LogWatcher below.    *)

\* what the engine may write to its standard error: nothing, the two
\* file-in-use sentences, the object-reference sentence and a newline, one
\* file-in-use sentence alone
EngineStderrs ==
    {<<>>,
     SentenceCannotAccess \o <<OtherWord>> \o SentenceUsedByAnother,
     SentenceObjectReference \o <<"\n">>,
     SentenceUsedByAnother}

ExitCodes == {0, 1}

\* what the engine may write to its standard output
EngineStdouts == {<<>>, <<OtherWord>>}

RunCall ==
    /\ cmd_pc \in {"idle", "returned", "raised"}
    /\ run_calls < MaxRunCalls
    /\ run_calls' = run_calls + 1
    /\ cmd_pc' = "attempt"
    /\ frames' = 1
    /\ raised' = "none"
    /\ retried_at_start' = retried_count
    /\ outcomes' = <<>>
    /\ printed' = <<>>
    /\ children' = 0
    /\ callbacks' = 0
    /\ last_child' = NoChild
    /\ raised_message' = <<>>
    /\ UNCHANGED <<args, retried_count, input_exists, funVars, allWatchVars>>

\* str(arg) for arg the bytes of the child's standard error: the literal
\* b'...', a newline written as the two characters \n
escape_byte_word(w) == IF w = "\n" THEN "\\n" ELSE w
str_of_bytes(b) == <<"b'">> \o [i \in 1..Len(b) |-> escape_byte_word(b[i])] \o <<"'">>

\* raise_exception, line 309: the message of the exception raised, from the
\* pieces str(arg) of the one passed in
exception_message(pieces) == pieces \o <<"\nEnd Exception from">>

\* a faulty variant: the check of the input file left out
input_file_never_missing(a, exists) == FALSE

\* if self.input_file: if not os.path.exists(self.input_file)
input_file_missing(a, exists) == a.input_file # NoInputFile /\ ~exists

RunAttempt ==
    /\ cmd_pc = "attempt"
    /\ IF input_file_missing(args, input_exists)
       THEN /\ printed' = Append(printed, "Start Exception")
            /\ raised' = DemandToolsInputFileDoesNotExist
            /\ raised_message' = exception_message(<<"input_file does not exist">>)
            /\ cmd_pc' = "raised"
            /\ frames' = 0
            /\ UNCHANGED children
       ELSE /\ printed' = Append(printed, "Sending")
            /\ children' = children + 1
            /\ cmd_pc' = "child"
            /\ UNCHANGED <<raised, raised_message, frames>>
    /\ last_child' = NoChild
    /\ UNCHANGED <<args, retried_count, input_exists, run_calls,
                   retried_at_start, outcomes, callbacks, funVars,
                   allWatchVars>>

\* a faulty variant: the class of the failure is not looked at
may_retry_any_class(exception, entries, count, retried) == count > retried

\* a faulty variant: one retry fewer than retry_count
may_retry_one_fewer(exception, entries, count, retried) ==
    exception \in entries /\ count > retried + 1

\* a faulty variant: >= where the code has >, one retry more than retry_count
may_retry_one_more(exception, entries, count, retried) ==
    exception \in entries /\ count >= retried

\* type(exception) in self.exceptions_to_retry_on and self.retry_count>self._retried_count
may_retry(exception, entries, count, retried) ==
    exception \in entries /\ count > retried

\* a faulty variant: the exit code decides
child_failed_by_exit_code(stdout, stderr, returncode) == returncode # 0

\* line 333: if stderr
child_failed(stdout, stderr, returncode) == stderr # <<>>

\* lines 332-348: communicate() returns; a retry, the raise, or the line
\* 'demandtools is done processing'
ChildExits(stdout, stderr, returncode) ==
    /\ cmd_pc = "child"
    /\ last_child' = [stdout |-> stdout, stderr |-> stderr, returncode |-> returncode]
    /\ IF child_failed(stdout, stderr, returncode)
       THEN LET exception == DemandToolsExceptionFactory(stderr) IN
            /\ outcomes' = Append(outcomes, exception)
            /\ IF may_retry(exception, args.exceptions_to_retry_on,
                            args.retry_count, retried_count)
               THEN /\ retried_count' = retried_count + 1
                    /\ printed' = Append(printed, "Retrying")
                    /\ frames' = frames + 1
                    /\ cmd_pc' = "attempt"
                    /\ UNCHANGED <<raised, raised_message>>
               ELSE /\ printed' = Append(printed, "Start Exception")
                    /\ raised' = exception
                    /\ raised_message' = exception_message(str_of_bytes(stderr))
                    /\ cmd_pc' = "raised"
                    /\ frames' = 0
                    /\ UNCHANGED retried_count
       ELSE /\ outcomes' = Append(outcomes, Clean)
            /\ printed' = Append(printed, "done processing")
            /\ cmd_pc' = "done_printed"
            /\ UNCHANGED <<retried_count, raised, raised_message, frames>>
    /\ UNCHANGED <<args, input_exists, run_calls, retried_at_start, children,
                   callbacks, funVars, allWatchVars>>

\* lines 349-350: if self.post_run_func: self.post_run_func(...); the frame
\* of the attempt returns
PostRunFunc ==
    /\ cmd_pc = "done_printed"
    /\ callbacks' = IF args.post_run_func THEN callbacks + 1 ELSE callbacks
    /\ cmd_pc' = IF frames > 1 THEN "unwind" ELSE "returned"
    /\ frames' = frames - 1
    /\ UNCHANGED <<args, retried_count, raised, input_exists, run_calls,
                   retried_at_start, outcomes, printed, children, last_child,
                   raised_message, funVars, allWatchVars>>

\* a faulty variant: the frame of a retry falls through to the end of run
\* when the inner call returns
frame_falls_through(has_post_run_func) == IF has_post_run_func THEN 1 ELSE 0

\* lines 343-344, self.run() then return: the calls of post_run_func the
\* frame of a retry makes after the inner call has returned
frame_returns(has_post_run_func) == 0

\* self.run() has returned in the frame of a retry: return
RetryFrameReturns ==
    /\ cmd_pc = "unwind"
    /\ frames' = frames - 1
    /\ callbacks' = callbacks + frame_returns(args.post_run_func)
    /\ cmd_pc' = IF frames > 1 THEN "unwind" ELSE "returned"
    /\ UNCHANGED <<args, retried_count, raised, input_exists, run_calls,
                   retried_at_start, outcomes, printed, children, last_child,
                   raised_message, funVars, allWatchVars>>

\* the file system: the input file is removed or put back while run is going on
InputFileChanges ==
    /\ cmd_pc \in {"idle", "attempt", "child"}
    /\ args.input_file # NoInputFile
    /\ input_exists' = ~input_exists
    /\ UNCHANGED <<args, cmd_pc, retried_count, raised, frames, run_calls,
                   retried_at_start, outcomes, printed, children, callbacks,
                   last_child, raised_message, funVars, allWatchVars>>

----------------------------------------------------------------------------
(* LogWatcher, the print_lock and the writers of the sink.                 *)
(* The LogWatcher thread and the callers of its stop method live in the    *)
(* main process.  A DemandToolsCommand is a multiprocessing.Process: after *)
(* start() its run method executes in a process of its own, which has its  *)
(* own copy of the module and so of print_lock (a threading.Lock, created  *)
(* at import); run() called directly executes in the caller's process.     *)

\* the characters the engine appends to its log, the calls of stop, the
\* lines one runner prints
MaxLogLen == 3
MaxStopCalls == 2
MaxPrints == 1

LogChars == {"x", "\n"}

Runners == {"runner1", "runner2"}
MainProcess == "main"
Processes == {MainProcess} \cup Runners
Free == "free"

\* ---- the line the watcher forwards (lines 84-94)
Whitespace == {" ", "\t", "\n", "\r"}

FirstIndex(l, c) == CHOOSE i \in 1..Len(l) : l[i] = c /\ \A j \in 1..(i - 1) : l[j] # c

\* if ',' in line: line = line[line.index(',')+1:]
AfterFirstComma(l) ==
    IF \E i \in 1..Len(l) : l[i] = ","
    THEN SubSeq(l, FirstIndex(l, ",") + 1, Len(l))
    ELSE l

RECURSIVE SkipCommas(_)
SkipCommas(l) == IF l # <<>> /\ Head(l) = "," THEN SkipCommas(Tail(l)) ELSE l

\* a faulty variant: every comma becomes a '|' of its own
RECURSIVE EachCommaToPipe(_)
EachCommaToPipe(l) ==
    IF l = <<>> THEN <<>>
    ELSE <<IF Head(l) = "," THEN "|" ELSE Head(l)>> \o EachCommaToPipe(Tail(l))

\* re.sub(",+","|",line)
RECURSIVE CommasToPipes(_)
CommasToPipes(l) ==
    IF l = <<>> THEN <<>>
    ELSE IF Head(l) = "," THEN <<"|">> \o CommasToPipes(SkipCommas(l))
    ELSE <<Head(l)>> \o CommasToPipes(Tail(l))

IsKept(c) == c \notin {"\n", "\""}

\* re.sub('(\n|")+','',line)
RemoveNewlinesAndQuotes(l) == SelectSeq(l, IsKept)

RECURSIVE LStrip(_)
LStrip(l) == IF l # <<>> /\ Head(l) \in Whitespace THEN LStrip(Tail(l)) ELSE l

RECURSIVE RStrip(_)
RStrip(l) ==
    IF l # <<>> /\ l[Len(l)] \in Whitespace THEN RStrip(SubSeq(l, 1, Len(l) - 1)) ELSE l

\* line.strip()
Strip(l) == RStrip(LStrip(l))

\* line[:self.max_line_length]
Truncate(l, n) == SubSeq(l, 1, IF Len(l) < n THEN Len(l) ELSE n)

NormalisedLine(l, n) ==
    Truncate(Strip(RemoveNewlinesAndQuotes(CommasToPipes(AfterFirstComma(l)))), n)

\* line.replace("\n","")!=""
IsBlankLine(l) == \A i \in 1..Len(l) : l[i] = "\n"

\* the characters of a log line and its length, for the normalisation taken
\* alone; the values of max_line_length are 0..MaxLineLen
MaxLineLen == 4
LineChars == {"x", ",", "\"", "\n", " "}

NormaliseIdle ==
    /\ raw_line = <<>>
    /\ line_limit = 0
    /\ payload = <<>>
    /\ norm_pc = "idle"

\* lines 84-94 for one line that is not blank
NormaliseAndPrint ==
    /\ norm_pc = "read"
    /\ ~IsBlankLine(raw_line)
    /\ payload' = NormalisedLine(raw_line, line_limit)
    /\ norm_pc' = "printed"
    /\ UNCHANGED <<raw_line, line_limit, clsVars, cmdVars, allWatchVars>>

\* file.readline() at position pos: up to and including the next newline, or
\* what is left of the file
ReadLine(file, pos) ==
    IF \E i \in (pos + 1)..Len(file) : file[i] = "\n"
    THEN SubSeq(file, pos + 1,
                CHOOSE i \in (pos + 1)..Len(file) :
                    file[i] = "\n" /\ \A j \in (pos + 1)..(i - 1) : file[j] # "\n")
    ELSE SubSeq(file, pos + 1, Len(file))

\* max_line_length=120, the constructor's default
max_line_length == 120

WatchIdle ==
    /\ wpc = "unstarted"
    /\ organization_id = FALSE
    /\ stop_event = FALSE
    /\ where = 0
    /\ line = <<>>
    /\ opened = FALSE
    /\ forwarded = <<>>
    /\ sleeps_since_stop = 0
    /\ set_while_waiting = FALSE
    /\ file_pos = 0
    /\ len_at_open = 0
    /\ listed = "unread"
    /\ stop_notices = 0
    /\ initialized_printed = FALSE
    /\ log_exists = FALSE
    /\ log_file = <<>>
    /\ print_lock = [p \in Processes |-> Free]
    /\ stop_pc = "idle"
    /\ stop_calls = 0
    /\ rpc = [r \in Runners |-> "unstarted"]
    /\ rhost = [r \in Runners |-> MainProcess]
    /\ rprints = [r \in Runners |-> 0]

WaitingForFile == {"wait_poll", "wait_check", "wait_sleep"}
Tailing == {"tail_check", "tail_read", "tail_sleep", "emit_lock", "emit_print"}
Terminated == {"done", "failed"}

\* ---- LogWatcher.start: the thread exists, run has not executed a line
WatcherStart(org_given) ==
    /\ wpc = "unstarted"
    /\ wpc' = "resolve"
    /\ organization_id' = org_given
    /\ UNCHANGED <<stop_event, where, line, opened, forwarded,
                   sleeps_since_stop, set_while_waiting, tailVars, listed,
                   sinkVars, envVars, print_lock, stopVars, runnerVars, funVars,
                   cmdVars>>

\* lines 48-62: the log directory; without organization_id, the first
\* directory under the base directory, or IndexError and self.stop()
\* a faulty variant: the base directory itself is taken when it has no
\* subdirectory
log_directory_always_found(org_given, has_org_folder) == "init_lock"

\* lines 48-58: where run goes next, to the "initialized" line or, on the
\* IndexError of os.listdir(...)[0], to self.stop() and the raise
log_directory_found(org_given, has_org_folder) ==
    IF org_given \/ has_org_folder THEN "init_lock" ELSE "err_stop_lock"

WatcherResolve(has_org_folder) ==
    /\ wpc = "resolve"
    /\ wpc' = log_directory_found(organization_id, has_org_folder)
    /\ listed' = IF organization_id THEN listed
                 ELSE IF has_org_folder THEN "some" ELSE "none"
    /\ UNCHANGED <<organization_id, stop_event, where, line, opened, forwarded,
                   sleeps_since_stop, set_while_waiting, tailVars, sinkVars,
                   envVars, print_lock, stopVars, runnerVars, funVars, cmdVars>>

\* with print_lock: entered by the watcher thread
WatcherAcquire ==
    /\ wpc \in {"init_lock", "emit_lock", "err_stop_lock"}
    /\ print_lock[MainProcess] = Free
    /\ print_lock' = [print_lock EXCEPT ![MainProcess] = "watcher"]
    /\ wpc' = CASE wpc = "init_lock" -> "init_print"
                [] wpc = "emit_lock" -> "emit_print"
                [] wpc = "err_stop_lock" -> "err_stop_print"
    /\ UNCHANGED <<organization_id, stop_event, where, line, opened, forwarded,
                   sleeps_since_stop, set_while_waiting, tailVars, listed,
                   sinkVars, envVars, stopVars, runnerVars, funVars, cmdVars>>

\* lines 63-64: the "initialized" line is printed, the lock released
WatcherInitPrinted ==
    /\ wpc = "init_print"
    /\ print_lock' = [print_lock EXCEPT ![MainProcess] = Free]
    /\ wpc' = "wait_poll"
    /\ initialized_printed' = TRUE
    /\ UNCHANGED <<organization_id, stop_event, where, line, opened, forwarded,
                   sleeps_since_stop, set_while_waiting, tailVars, listed,
                   stop_notices, envVars, stopVars, runnerVars, funVars,
                   cmdVars>>

\* line 66: while not os.path.exists(log_path)
WatcherPoll ==
    /\ wpc = "wait_poll"
    /\ wpc' = IF log_exists THEN "open" ELSE "wait_check"
    /\ UNCHANGED <<organization_id, stop_event, where, line, opened, forwarded,
                   sleeps_since_stop, set_while_waiting, tailVars, listed,
                   sinkVars, envVars, print_lock, stopVars, runnerVars, funVars,
                   cmdVars>>

\* a faulty variant: the signal checked in the waiting loop only
returns_on_stop_while_waiting(pc, stopped) == stopped /\ pc = "wait_check"

\* if self.stopped: return, at the head of either loop (pc)
returns_on_stop(pc, stopped) == stopped

\* lines 67-69: the check of the signal, then time.sleep(1)
WatcherWaitCheck ==
    /\ wpc = "wait_check"
    /\ wpc' = IF returns_on_stop(wpc, stop_event) THEN "done" ELSE "wait_sleep"
    /\ UNCHANGED <<organization_id, stop_event, where, line, opened, forwarded,
                   sleeps_since_stop, set_while_waiting, tailVars, listed,
                   sinkVars, envVars, print_lock, stopVars, runnerVars, funVars,
                   cmdVars>>

\* a sleep of one second ends (lines 69 and 81); in the tailing loop
\* file.seek(where) follows (line 82)
WatcherWakes ==
    /\ wpc \in {"wait_sleep", "tail_sleep"}
    /\ wpc' = IF wpc = "wait_sleep" THEN "wait_poll" ELSE "tail_check"
    /\ file_pos' = IF wpc = "tail_sleep" THEN where ELSE file_pos
    /\ sleeps_since_stop' = IF stop_event /\ sleeps_since_stop < 2
                            THEN sleeps_since_stop + 1 ELSE sleeps_since_stop
    /\ UNCHANGED <<organization_id, stop_event, where, line, opened, forwarded,
                   set_while_waiting, len_at_open, listed, sinkVars, envVars,
                   print_lock, stopVars, runnerVars, funVars, cmdVars>>

\* a faulty variant: the file is read from its beginning
seek_to_start(file) == 0

\* file.seek(0,2): the position of the end of the file
seek_to_end(file) == Len(file)

\* lines 71-73: open(log_path), file.seek(0,2)
WatcherOpens ==
    /\ wpc = "open"
    /\ opened' = TRUE
    /\ len_at_open' = Len(log_file)
    /\ file_pos' = seek_to_end(log_file)
    /\ wpc' = "tail_check"
    /\ UNCHANGED <<organization_id, stop_event, where, line, forwarded,
                   sleeps_since_stop, set_while_waiting, listed, sinkVars,
                   envVars, print_lock, stopVars, runnerVars, funVars, cmdVars>>

\* lines 75-77
WatcherTailCheck ==
    /\ wpc = "tail_check"
    /\ wpc' = IF returns_on_stop(wpc, stop_event) THEN "done" ELSE "tail_read"
    /\ UNCHANGED <<organization_id, stop_event, where, line, opened, forwarded,
                   sleeps_since_stop, set_while_waiting, tailVars, listed,
                   sinkVars, envVars, print_lock, stopVars, runnerVars, funVars,
                   cmdVars>>

\* lines 78-84: where = file.tell(); line = file.readline(); nothing read:
\* sleep, the position kept; a blank line: next iteration; else forward it
WatcherReads ==
    /\ wpc = "tail_read"
    /\ LET read == ReadLine(log_file, file_pos) IN
        /\ where' = file_pos
        /\ line' = read
        /\ file_pos' = file_pos + Len(read)
        /\ wpc' = IF read = <<>> THEN "tail_sleep"
                  ELSE IF IsBlankLine(read) THEN "tail_check"
                  ELSE "emit_lock"
    /\ UNCHANGED <<organization_id, stop_event, opened, forwarded,
                   sleeps_since_stop, set_while_waiting, len_at_open, listed,
                   sinkVars, envVars, print_lock, stopVars, runnerVars, funVars,
                   cmdVars>>

\* lines 85-94: the 'DTLog>>> ' line is printed, the lock released
WatcherForwarded ==
    /\ wpc = "emit_print"
    /\ forwarded' = Append(forwarded, NormalisedLine(line, max_line_length))
    /\ print_lock' = [print_lock EXCEPT ![MainProcess] = Free]
    /\ wpc' = "tail_check"
    /\ UNCHANGED <<organization_id, stop_event, where, line, opened,
                   sleeps_since_stop, set_while_waiting, tailVars, listed,
                   sinkVars, envVars, stopVars, runnerVars, funVars, cmdVars>>

\* line 56, self.stop() in the watcher thread: the stop notice is printed and
\* the lock released (lines 27-28)
WatcherSelfStopPrinted ==
    /\ wpc = "err_stop_print"
    /\ print_lock' = [print_lock EXCEPT ![MainProcess] = Free]
    /\ wpc' = "err_stop_set"
    /\ stop_notices' = stop_notices + 1
    /\ UNCHANGED <<organization_id, stop_event, where, line, opened, forwarded,
                   sleeps_since_stop, set_while_waiting, tailVars, listed,
                   initialized_printed, envVars, stopVars, runnerVars, funVars,
                   cmdVars>>

\* line 29 of that self.stop()
WatcherSelfStopSets ==
    /\ wpc = "err_stop_set"
    /\ stop_event' = TRUE
    /\ wpc' = "err_raise"
    /\ UNCHANGED <<organization_id, where, line, opened, forwarded,
                   sleeps_since_stop, set_while_waiting, tailVars, listed,
                   sinkVars, envVars, print_lock, stopVars, runnerVars, funVars,
                   cmdVars>>

\* lines 57-58: with print_lock: raise; the with statement releases the lock
\* as the exception leaves it, and the thread ends
WatcherRaises ==
    /\ wpc = "err_raise"
    /\ print_lock[MainProcess] = Free
    /\ wpc' = "failed"
    /\ UNCHANGED <<organization_id, stop_event, where, line, opened, forwarded,
                   sleeps_since_stop, set_while_waiting, tailVars, listed,
                   sinkVars, envVars, print_lock, stopVars, runnerVars, funVars,
                   cmdVars>>

WatcherStep ==
    \/ \E has_org_folder \in BOOLEAN : WatcherResolve(has_org_folder)
    \/ WatcherAcquire
    \/ WatcherInitPrinted
    \/ WatcherPoll
    \/ WatcherWaitCheck
    \/ WatcherWakes
    \/ WatcherOpens
    \/ WatcherTailCheck
    \/ WatcherReads
    \/ WatcherForwarded
    \/ WatcherSelfStopPrinted
    \/ WatcherSelfStopSets
    \/ WatcherRaises

\* ---- LogWatcher.stop, called by a thread of the main process
\* line 27: with print_lock
StopAcquire ==
    /\ stop_pc = "idle"
    /\ stop_calls < MaxStopCalls
    /\ print_lock[MainProcess] = Free
    /\ print_lock' = [print_lock EXCEPT ![MainProcess] = "stop"]
    /\ stop_pc' = "print"
    /\ stop_calls' = stop_calls + 1
    /\ UNCHANGED <<watchVars, sinkVars, envVars, runnerVars, funVars, cmdVars>>

\* line 28: the stop notice is printed, the lock released
StopPrinted ==
    /\ stop_pc = "print"
    /\ print_lock' = [print_lock EXCEPT ![MainProcess] = Free]
    /\ stop_pc' = "set"
    /\ stop_notices' = stop_notices + 1
    /\ UNCHANGED <<stop_calls, watchVars, initialized_printed, envVars,
                   runnerVars, funVars, cmdVars>>

\* line 29: self._stop_event.set()
StopSets ==
    /\ stop_pc = "set"
    /\ stop_event' = TRUE
    /\ set_while_waiting' = (set_while_waiting \/ (~stop_event /\ wpc \in WaitingForFile))
    /\ stop_pc' = "idle"
    /\ UNCHANGED <<wpc, organization_id, where, line, opened, forwarded,
                   sleeps_since_stop, tailVars, listed, sinkVars, envVars,
                   print_lock, stop_calls, runnerVars, funVars, cmdVars>>

\* ---- the runners as writers of the sink
\* Process.start(): run executes in a new process
RunnerStart(r) ==
    /\ rpc[r] = "unstarted"
    /\ rpc' = [rpc EXCEPT ![r] = "running"]
    /\ rhost' = [rhost EXCEPT ![r] = r]
    /\ UNCHANGED <<rprints, watchVars, sinkVars, envVars, print_lock, stopVars,
                   funVars, cmdVars>>

\* run() called directly, in a thread of the main process
RunnerRunInCaller(r) ==
    /\ rpc[r] = "unstarted"
    /\ rpc' = [rpc EXCEPT ![r] = "running"]
    /\ rhost' = [rhost EXCEPT ![r] = MainProcess]
    /\ UNCHANGED <<rprints, watchVars, sinkVars, envVars, print_lock, stopVars,
                   funVars, cmdVars>>

\* the print_lock a runner's _print takes: the one of the process it runs in
lock_of(r, host) == host

\* DemandToolsCommand._print, line 300: with print_lock
CmdPrintAcquire(r) ==
    /\ rpc[r] = "running"
    /\ rprints[r] < MaxPrints
    /\ print_lock[lock_of(r, rhost[r])] = Free
    /\ print_lock' = [print_lock EXCEPT ![lock_of(r, rhost[r])] = r]
    /\ rpc' = [rpc EXCEPT ![r] = "print"]
    /\ UNCHANGED <<rhost, rprints, watchVars, sinkVars, envVars, stopVars,
                   funVars, cmdVars>>

\* lines 301-304: the line is printed, the lock released
CmdPrinted(r) ==
    /\ rpc[r] = "print"
    /\ print_lock' = [print_lock EXCEPT ![lock_of(r, rhost[r])] = Free]
    /\ rpc' = [rpc EXCEPT ![r] = "running"]
    /\ rprints' = [rprints EXCEPT ![r] = rprints[r] + 1]
    /\ UNCHANGED <<rhost, watchVars, sinkVars, envVars, stopVars, funVars,
                   cmdVars>>

\* ---- the engine and its log file
EngineCreatesLog ==
    /\ ~log_exists
    /\ log_exists' = TRUE
    /\ UNCHANGED <<log_file, watchVars, sinkVars, print_lock, stopVars,
                   runnerVars, funVars, cmdVars>>

EngineAppends(c) ==
    /\ log_exists
    /\ Len(log_file) < MaxLogLen
    /\ log_file' = Append(log_file, c)
    /\ UNCHANGED <<log_exists, watchVars, sinkVars, print_lock, stopVars,
                   runnerVars, funVars, cmdVars>>

----------------------------------------------------------------------------
(* The specifications.                                                     *)

InitClassify ==
    /\ demand_tools_stderr_string \in SeqsUpTo(Words, MaxTextLen)
    /\ factory_result = "none"
    /\ NormaliseIdle
    /\ CmdIdle
    /\ WatchIdle

Classify ==
    /\ factory_result = "none"
    /\ factory_result' = DemandToolsExceptionFactory(demand_tools_stderr_string)
    /\ UNCHANGED <<demand_tools_stderr_string, normVars, cmdVars, allWatchVars>>

NextClassify == Classify

SpecClassify == InitClassify /\ [][NextClassify]_vars

InitNormalise ==
    /\ raw_line \in SeqsUpTo(LineChars, MaxLineLen)
    /\ line_limit \in 0..MaxLineLen
    /\ payload = <<>>
    /\ norm_pc = "read"
    /\ ClassifyIdle
    /\ CmdIdle
    /\ WatchIdle

NextNormalise == NormaliseAndPrint

SpecNormalise == InitNormalise /\ [][NextNormalise]_vars

InitRun == ClassifyIdle /\ NormaliseIdle /\ CmdIdle /\ WatchIdle

NextRun ==
    \/ cmd_pc = "new" /\ \E a \in ArgsSpace : Construct(a)
    \/ RunCall
    \/ RunAttempt
    \/ \E stdout \in EngineStdouts, stderr \in EngineStderrs, returncode \in ExitCodes :
           ChildExits(stdout, stderr, returncode)
    \/ PostRunFunc
    \/ RetryFrameReturns
    \/ InputFileChanges

SpecRun == InitRun /\ [][NextRun]_vars

InitWatch == ClassifyIdle /\ NormaliseIdle /\ CmdIdle /\ WatchIdle

NextWatch ==
    \/ \E org_given \in BOOLEAN : WatcherStart(org_given)
    \/ WatcherStep
    \/ StopAcquire
    \/ StopPrinted
    \/ StopSets
    \/ \E r \in Runners : RunnerStart(r)
    \/ \E r \in Runners : RunnerRunInCaller(r)
    \/ \E r \in Runners : CmdPrintAcquire(r)
    \/ \E r \in Runners : CmdPrinted(r)
    \/ EngineCreatesLog
    \/ \E c \in LogChars : EngineAppends(c)

SpecWatch == InitWatch /\ [][NextWatch]_vars

\* The main process alone: the watcher thread, the caller of stop, the engine
\* and its log, and a runner whose run method was called in the main process.
\* A runner started in a process of its own shares no lock, signal or file
\* position with the watcher, so it is left out here.
MainRunner == CHOOSE r \in Runners : TRUE

NextWatchMain ==
    \/ \E org_given \in BOOLEAN : WatcherStart(org_given)
    \/ WatcherStep
    \/ StopAcquire
    \/ StopPrinted
    \/ StopSets
    \/ RunnerRunInCaller(MainRunner)
    \/ CmdPrintAcquire(MainRunner)
    \/ CmdPrinted(MainRunner)
    \/ EngineCreatesLog
    \/ \E c \in LogChars : EngineAppends(c)

SpecWatchMain == InitWatch /\ [][NextWatchMain]_vars

\* The watcher thread, the callers of stop and the engine, no runner printing:
\* what the termination of the watcher rests on.
NextWatchAlone ==
    \/ \E org_given \in BOOLEAN : WatcherStart(org_given)
    \/ WatcherStep
    \/ StopAcquire
    \/ StopPrinted
    \/ StopSets
    \/ EngineCreatesLog
    \/ \E c \in LogChars : EngineAppends(c)

SpecWatchAlone == InitWatch /\ [][NextWatchAlone]_vars

\* the scheduler runs the watcher thread; a stop that holds print_lock prints
\* and releases it; a stop that has printed sets the signal
FairSpecWatchAlone ==
    /\ SpecWatchAlone
    /\ WF_vars(WatcherStep)
    /\ WF_vars(StopPrinted)
    /\ WF_vars(StopSets)

----------------------------------------------------------------------------
(* C4.  The reference classification, computed by a left-to-right scan     *)
(* that is written independently of the factory.                           *)

RECURSIVE HasPrefix(_, _)
HasPrefix(text, content) ==
    IF content = <<>> THEN TRUE
    ELSE IF text = <<>> THEN FALSE
    ELSE Head(text) = Head(content) /\ HasPrefix(Tail(text), Tail(content))

RECURSIVE Occurs(_, _)
Occurs(text, content) ==
    IF HasPrefix(text, content) THEN TRUE
    ELSE IF text = <<>> THEN FALSE
    ELSE Occurs(Tail(text), content)

ReferenceCategory(text) ==
    CASE Occurs(text, SentenceUsedByAnother) /\ Occurs(text, SentenceCannotAccess)
            -> DemandToolsMultiProcessDBWriteConflictException
      [] ~(Occurs(text, SentenceUsedByAnother) /\ Occurs(text, SentenceCannotAccess))
         /\ Occurs(text, SentenceObjectReference)
            -> DemandToolsObjectReferenceException
      [] OTHER -> DemandToolsCommandException

\* C4: the factory is total and returns, for every diagnostic text, the class
\* of the reference: DBAccessCollision when both file-in-use sentences occur
\* (in either order, the object-reference sentence present or not), otherwise
\* ObjectReferenceFault when the object-reference sentence occurs, otherwise
\* GenericCommandFailure (also when only one file-in-use sentence occurs).
C4_FactoryEqualsReference ==
    factory_result # "none" =>
        /\ factory_result \in {DemandToolsMultiProcessDBWriteConflictException,
                               DemandToolsObjectReferenceException,
                               DemandToolsCommandException}
        /\ factory_result = ReferenceCategory(demand_tools_stderr_string)

\* a text with the three sentences, the second file-in-use sentence first,
\* classified as the DB collision
C4_Witness ==
    /\ demand_tools_stderr_string =
           SentenceCannotAccess \o SentenceObjectReference \o SentenceUsedByAnother
    /\ factory_result = DemandToolsMultiProcessDBWriteConflictException

----------------------------------------------------------------------------
(* Claims about DemandToolsCommand, checked under SpecRun.                 *)

RECURSIVE CountOf(_, _)
CountOf(seq, x) ==
    IF seq = <<>> THEN 0
    ELSE (IF Head(seq) = x THEN 1 ELSE 0) + CountOf(Tail(seq), x)

Repeat(x, n) == [i \in 1..n |-> x]

\* a call of run is going on, or has ended, on an object whose retry counter
\* was zero when the call began, as __init__ leaves it
InFreshCall ==
    /\ cmd_pc \in {"attempt", "child", "done_printed", "unwind", "returned", "raised"}
    /\ retried_at_start = 0

\* C1: with retry budget N >= 1 and a class C of the retry-eligible set, when
\* the engine fails with C on the first N attempts of a call of run and then
\* exits with an empty standard error, run has not raised on any of the N
\* failures, has retried exactly N times (N retry notices, N+1 children),
\* returns without raising and has invoked post_run_func exactly once.
C1_RetriesThenCompletes ==
    \A C \in args.exceptions_to_retry_on :
        (InFreshCall /\ args.retry_count >= 1) =>
            /\ (\E k \in 1..args.retry_count : outcomes = Repeat(C, k))
                   => raised \in {"none", DemandToolsInputFileDoesNotExist}
            /\ outcomes = Append(Repeat(C, args.retry_count), Clean) =>
                   /\ cmd_pc \in {"done_printed", "unwind", "returned"}
                   /\ raised = "none"
                   /\ retried_count = args.retry_count
                   /\ CountOf(printed, "Retrying") = args.retry_count
                   /\ children = args.retry_count + 1
                   /\ cmd_pc # "done_printed" =>
                          callbacks = IF args.post_run_func THEN 1 ELSE 0

C1_Witness ==
    /\ InFreshCall
    /\ cmd_pc = "returned"
    /\ args.retry_count = 2
    /\ args.post_run_func
    /\ outcomes = <<DemandToolsObjectReferenceException,
                    DemandToolsObjectReferenceException, Clean>>
    /\ callbacks = 1

\* C2: with retry budget N >= 1 and a class C of the retry-eligible set, when
\* the engine fails with C on every attempt of a call of run, run makes
\* exactly N+1 attempts (N retries), then raises C, and post_run_func is
\* never invoked.
C2_ExhaustedBudgetRaises ==
    \A C \in args.exceptions_to_retry_on :
        (/\ InFreshCall
         /\ args.retry_count >= 1
         /\ outcomes # <<>>
         /\ outcomes = Repeat(C, Len(outcomes))) =>
            /\ callbacks = 0
            /\ children <= args.retry_count + 1
            /\ Len(outcomes) = args.retry_count + 1 =>
                   /\ cmd_pc = "raised"
                   /\ raised = C
                   /\ retried_count = args.retry_count
                   /\ CountOf(printed, "Retrying") = args.retry_count
                   /\ children = args.retry_count + 1
            /\ (cmd_pc = "raised" /\ raised # DemandToolsInputFileDoesNotExist) =>
                   Len(outcomes) = args.retry_count + 1

C2_Witness ==
    /\ InFreshCall
    /\ cmd_pc = "raised"
    /\ args.retry_count = 2
    /\ args.post_run_func
    /\ raised = DemandToolsMultiProcessDBWriteConflictException
    /\ outcomes = Repeat(DemandToolsMultiProcessDBWriteConflictException, 3)

\* C3: a constructor call with a non-empty exceptions_to_retry_on and
\* retry_count = 0, or with an empty exceptions_to_retry_on and a non-zero
\* retry_count, raises: no object exists, run is never called and no child
\* is spawned.
C3_MismatchRaises ==
    (/\ cmd_pc # "new"
     /\ \/ args.exceptions_to_retry_on # {} /\ args.retry_count = 0
        \/ args.exceptions_to_retry_on = {} /\ args.retry_count # 0) =>
        /\ cmd_pc = "ctor_raised"
        /\ raised \in {DemandToolsCommandException, TypeError}
        /\ run_calls = 0
        /\ children = 0

\* every other argument is valid: the mismatch alone makes __init__ raise
C3_Witness ==
    /\ cmd_pc = "ctor_raised"
    /\ args.scenario_path.ext \in scenario_types
    /\ args.exceptions_to_retry_on = {DemandToolsMultiProcessDBWriteConflictException}
    /\ args.retry_count = 0
    /\ raised = DemandToolsCommandException

\* C5: an attempt of run (the first or a retry) that begins with an input
\* file configured and absent raises DemandToolsInputFileDoesNotExist in that
\* attempt: no child is spawned, no "Sending" line is printed, the retry
\* counter is left alone, and the exception leaves every frame of run (it is
\* not retried, whatever exceptions_to_retry_on holds).
C5_MissingInputRaises ==
    /\ [][(/\ cmd_pc = "attempt"
           /\ args.input_file # NoInputFile
           /\ ~input_exists
           /\ cmd_pc' # "attempt") =>
              (/\ cmd_pc' = "raised"
               /\ raised' = DemandToolsInputFileDoesNotExist
               /\ children' = children
               /\ printed' = Append(printed, "Start Exception")
               /\ retried_count' = retried_count
               /\ frames' = 0)]_vars
    /\ [][(cmd_pc = "raised" /\ raised = DemandToolsInputFileDoesNotExist) =>
              (children' = children \/ run_calls' = run_calls + 1)]_vars

\* raised in a retry, the class being retry-eligible and budget left
C5_Witness ==
    /\ cmd_pc = "raised"
    /\ raised = DemandToolsInputFileDoesNotExist
    /\ DemandToolsInputFileDoesNotExist \in args.exceptions_to_retry_on
    /\ children = 1
    /\ retried_count = 1
    /\ args.retry_count = 2
    /\ CountOf(printed, "Sending") = 1

\* C9 as claimed: an entry of exceptions_to_retry_on outside the four failure
\* classes makes the constructor raise.
C9_OutsideClosedSetRaises ==
    (cmd_pc # "new" /\ \E e \in args.exceptions_to_retry_on : e \notin FailureCategories)
        => cmd_pc = "ctor_raised"

\* C9 as amended: an entry of exceptions_to_retry_on that is not a subclass
\* of Exception makes the constructor raise, before run is called or a child
\* spawned; a subclass of Exception outside the four failure classes is
\* accepted.
C9_NonExceptionEntryRaises ==
    (cmd_pc # "new" /\ \E e \in args.exceptions_to_retry_on : e \notin ExceptionSubclasses)
        => /\ cmd_pc = "ctor_raised"
           /\ raised \in {DemandToolsCommandException, TypeError}
           /\ run_calls = 0
           /\ children = 0

\* every other argument is valid: the entry alone makes __init__ raise
C9_Witness ==
    /\ cmd_pc = "ctor_raised"
    /\ args.scenario_path.ext \in scenario_types
    /\ args.exceptions_to_retry_on = {IntClass, DemandToolsCommandException}
    /\ args.retry_count = 1
    /\ raised = DemandToolsCommandException

\* C10 as claimed: a constructed DemandToolsCommand has a non-empty
\* exceptions_to_retry_on if and only if its retry_count is positive.
C10_PolicyInvariant ==
    cmd_pc \notin {"new", "ctor_raised"} =>
        ((args.exceptions_to_retry_on # {}) <=> (args.retry_count > 0))

----------------------------------------------------------------------------
(* Claims about LogWatcher and the sink, checked under SpecWatch and       *)
(* FairSpecWatchAlone.                                                     *)

\* C6 as claimed: once stop has set the signal with the watcher in
\* WaitingForFile, the watcher never opens the log file.
C6_StoppedWhileWaitingNeverOpens ==
    set_while_waiting => ~opened

\* the writers that are inside a write to the sink
SinkWriters ==
    {r \in Runners : rpc[r] = "print"}
        \cup (IF wpc \in {"init_print", "emit_print", "err_stop_print"}
              THEN {"watcher"} ELSE {})
        \cup (IF stop_pc = "print" THEN {"stop"} ELSE {})

\* C7 as claimed: at every moment at most one writer (a runner, the watcher
\* thread, a caller of stop) is inside a write to the sink.
C7_OneSinkWriter ==
    Cardinality(SinkWriters) <= 1

\* C8: once stop has set the signal, the started watcher thread terminates,
\* wherever it is, and no more than one of its one-second sleeps ends after
\* the signal was set, the log file growing or not.
C8_StopTerminatesWatcher ==
    /\ [](sleeps_since_stop <= 1)
    /\ (stop_event /\ wpc # "unstarted") ~> (wpc \in Terminated)

\* stopped in the tailing loop after one more sleep, lines left unread
C8_Witness ==
    /\ stop_event
    /\ wpc = "done"
    /\ opened
    /\ sleeps_since_stop = 1
    /\ file_pos < Len(log_file)

\* C11. stop is idempotent: however many calls of stop have been made, the
\* sink holds what one call leaves on it, a single stop notice, and every
\* call that has returned leaves the signal set.
C11_StopIsIdempotent ==
    /\ stop_notices <= 1
    /\ (stop_calls >= 1 /\ stop_pc = "idle") => stop_event

----------------------------------------------------------------------------
(* C12.  The payload as the sentence describes it, written on the          *)
(* positions of the line and not by the scans of the code.                 *)

MinOf(S) == CHOOSE i \in S : \A j \in S : i <= j
MaxOf(S) == CHOOSE i \in S : \A j \in S : j <= i

\* the characters of l at the positions in K, in the order of l
RECURSIVE AtPositions(_, _, _)
AtPositions(l, K, i) ==
    IF i > Len(l) THEN <<>>
    ELSE (IF i \in K THEN <<l[i]>> ELSE <<>>) \o AtPositions(l, K, i + 1)

\* everything up to and including the first comma removed
RefWithoutFirstField(l) ==
    LET commas == {i \in 1..Len(l) : l[i] = ","} IN
    IF commas = {} THEN l
    ELSE [j \in 1..(Len(l) - MinOf(commas)) |-> l[MinOf(commas) + j]]

\* each maximal run of commas replaced by one '|'
RefRunsToPipes(l) ==
    LET kept == {i \in 1..Len(l) : l[i] # "," \/ i = 1 \/ l[i - 1] # ","}
        g == AtPositions(l, kept, 1)
    IN [i \in 1..Len(g) |-> IF g[i] = "," THEN "|" ELSE g[i]]

\* all newline and double-quote characters deleted
RefWithoutNewlinesAndQuotes(l) ==
    AtPositions(l, {i \in 1..Len(l) : l[i] # "\n" /\ l[i] # "\""}, 1)

\* surrounding whitespace trimmed
RefTrimmed(l) ==
    LET inked == {i \in 1..Len(l) : l[i] \notin Whitespace} IN
    IF inked = {} THEN <<>> ELSE [j \in 1..(MaxOf(inked) - MinOf(inked) + 1) |-> l[MinOf(inked) + j - 1]]

\* cut to the first n characters
RefCut(l, n) == [i \in 1..(IF n < Len(l) THEN n ELSE Len(l)) |-> l[i]]

RefPayload(l, n) ==
    RefCut(RefTrimmed(RefWithoutNewlinesAndQuotes(RefRunsToPipes(RefWithoutFirstField(l)))), n)

\* C12. For a line that is not blank the payload printed after 'DTLog>>> ' is
\* the line without its first comma-terminated field, with every run of
\* commas turned into one '|', without newlines and double quotes, trimmed
\* and cut to max_line_length characters; so it holds no comma, no double
\* quote, no newline and is at most max_line_length long.
C12_PayloadIsNormalised ==
    norm_pc = "printed" =>
        /\ payload = RefPayload(raw_line, line_limit)
        /\ \A i \in 1..Len(payload) : payload[i] \notin {",", "\"", "\n"}
        /\ Len(payload) <= line_limit

\* an empty timestamp field, a run of two commas, and the cut at work
C12_Witness ==
    /\ norm_pc = "printed"
    /\ Len(raw_line) >= 4
    /\ \A i \in 1..3 : raw_line[i] = ","
    /\ raw_line[4] = "x"
    /\ line_limit = 1
    /\ payload = <<"|">>

----------------------------------------------------------------------------
(* The claims on the tailing of the log file.                              *)

\* C13. The watcher never forwards a partial line: the line it has read and
\* goes on to print ends with its newline (characters appended without one
\* are left in the file, unread).
C13_NeverForwardsPartialLine ==
    wpc \in {"emit_lock", "emit_print"} => line[Len(line)] = "\n"

RECURSIVE Concat(_)
Concat(ls) == IF ls = <<>> THEN <<>> ELSE Head(ls) \o Concat(Tail(ls))

\* the position up to which the file has been printed: a line read and not
\* yet printed starts at where
PrintedUpTo == IF wpc \in {"emit_lock", "emit_print"} THEN where ELSE file_pos

\* C14. The watcher forwards only what was appended to the log file after it
\* opened the file, in file order and once: nothing is forwarded before the
\* open; the position starts at the length the file had at the open, never
\* moves back (the seek after a sleep included) and never passes the end;
\* every read starts where the one before ended; every line printed is the
\* normalisation of the characters just read; and the payloads printed, put
\* end to end, are the characters of the file from the open position to the
\* position printed, newlines left out.
C14_ForwardsAppendedInOrderOnce ==
    /\ [](~opened => forwarded = <<>>)
    /\ [](opened => len_at_open <= file_pos /\ file_pos <= Len(log_file))
    /\ [](opened => Concat(forwarded)
                       = RemoveNewlinesAndQuotes(SubSeq(log_file, len_at_open + 1, PrintedUpTo)))
    /\ [][opened => file_pos' >= file_pos]_vars
    /\ [][wpc = "tail_read" /\ wpc' # "tail_read"
            => where' = file_pos /\ line' = SubSeq(log_file, file_pos + 1, file_pos')]_vars
    /\ [][forwarded' # forwarded
            => /\ where < file_pos
               /\ forwarded' = Append(forwarded,
                      NormalisedLine(SubSeq(log_file, where + 1, file_pos), max_line_length))]_vars

\* the file held a line when it was opened; the line appended afterwards has
\* been forwarded, and it alone
C14_Witness ==
    /\ opened
    /\ len_at_open = 1
    /\ log_file = <<"\n", "x", "\n">>
    /\ forwarded = << <<"x">> >>
    /\ wpc = "tail_sleep"

----------------------------------------------------------------------------
(* The claims on one attempt of run and on the calls of run on one object. *)

\* the text a message of raise_exception carries: what stands between b' and
\* ' before the end line, its escapes undone
unescape_byte_word(w) == IF w = "\\n" THEN "\n" ELSE w

CarriedText(message) ==
    IF Len(message) >= 3 /\ message[1] = "b'" /\ message[Len(message) - 1] = "'"
    THEN [i \in 1..(Len(message) - 3) |-> unescape_byte_word(message[i + 1])]
    ELSE <<"not the literal of a bytes object">>

\* the step in which communicate() returns
ChildExitStep == cmd_pc = "child" /\ cmd_pc' # "child"

\* C15. When the child exits with a standard error that is not empty and its
\* class is not in exceptions_to_retry_on, or retry_count retries have been
\* made, run raises in that step: no child is spawned, no retry notice is
\* printed, _retried_count is unchanged, post_run_func is not called, the
\* exception is of the class the classification of the text gives, and its
\* message carries the text of the standard error; nothing is spawned after
\* the raise.
C15_NoRetryRaisesCategory ==
    /\ [][(/\ ChildExitStep
           /\ last_child'.stderr # <<>>
           /\ \/ ReferenceCategory(last_child'.stderr) \notin args.exceptions_to_retry_on
              \/ retried_count >= args.retry_count)
          => /\ cmd_pc' = "raised"
             /\ children' = children
             /\ CountOf(printed', "Retrying") = CountOf(printed, "Retrying")
             /\ printed' = Append(printed, "Start Exception")
             /\ retried_count' = retried_count
             /\ callbacks' = callbacks
             /\ raised' = ReferenceCategory(last_child'.stderr)
             /\ CarriedText(raised_message') = last_child'.stderr]_vars
    /\ [][cmd_pc = "raised" /\ cmd_pc' = "raised" => children' = children]_vars

\* the budget of two retries used up on a class of the set; the text raised
\* holds a newline
C15_Witness ==
    /\ cmd_pc = "raised"
    /\ args.retry_count = 2
    /\ retried_count = 2
    /\ DemandToolsObjectReferenceException \in args.exceptions_to_retry_on
    /\ raised = DemandToolsObjectReferenceException
    /\ last_child.stderr = SentenceObjectReference \o <<"\n">>
    /\ raised_message = <<"b'">> \o SentenceObjectReference
                            \o <<"\\n", "'", "\nEnd Exception from">>

\* a call of run is going on or has ended
InCall == cmd_pc \in {"attempt", "child", "done_printed", "unwind", "returned", "raised"}

\* the call of run has ended
CallEnded == cmd_pc \in {"returned", "raised"}

\* what holds of the children and of the counter whatever the budget: one
\* child per attempt that got past the check of the input file, one at a
\* time; the counter moves by one, with a retry notice, and a call of run
\* does not reset it
AttemptsAndCounter ==
    /\ [](InCall =>
            /\ children = CountOf(printed, "Sending")
            /\ children = Len(outcomes) + (IF cmd_pc = "child" THEN 1 ELSE 0)
            /\ retried_count = retried_at_start + CountOf(printed, "Retrying"))
    /\ [][children' # children =>
             \/ cmd_pc = "attempt" /\ cmd_pc' = "child" /\ children' = children + 1
             \/ cmd_pc' = "attempt" /\ children' = 0 /\ run_calls' = run_calls + 1]_vars
    /\ [][retried_count' # retried_count =>
             /\ ChildExitStep
             /\ retried_count' = retried_count + 1
             /\ printed' = Append(printed, "Retrying")]_vars

\* C16 as stated. On one object, over its calls of run: one child per
\* attempt, one at a time; every call of run spawns at least one child and at
\* most retry_count + 1; _retried_count grows by one per retry, is not reset
\* by a call of run and never exceeds retry_count.
C16_RunnerInvariants ==
    /\ AttemptsAndCounter
    /\ [](CallEnded => children >= 1)
    /\ [](InCall => children <= args.retry_count + 1)
    /\ [](cmd_pc \notin {"new", "ctor_raised"} => retried_count <= args.retry_count)

\* the retries an object allows: its retry_count, none when that is negative
RetriesAllowed == IF args.retry_count > 0 THEN args.retry_count ELSE 0

\* C16, amended. As above, but a call of run that finds the input file
\* missing at its first attempt spawns no child, and the bounds are those of
\* the retries the object allows: a call spawns at most RetriesAllowed + 1
\* children, at least one unless it raised DemandToolsInputFileDoesNotExist,
\* and _retried_count stays within 0..RetriesAllowed.
C16_RunnerInvariantsAmended ==
    /\ AttemptsAndCounter
    /\ [](CallEnded => children >= 1 \/ raised = DemandToolsInputFileDoesNotExist)
    /\ [](cmd_pc \in {"done_printed", "unwind", "returned"} => children >= 1)
    /\ [](InCall => children <= RetriesAllowed + 1)
    /\ [](cmd_pc \notin {"new", "ctor_raised"} =>
            retried_count >= 0 /\ retried_count <= RetriesAllowed)

\* the second call of run on an object that has one of its two retries left
C16_Witness ==
    /\ run_calls = 2
    /\ args.retry_count = 2
    /\ retried_at_start = 1
    /\ retried_count = 2
    /\ children = 2
    /\ cmd_pc = "returned"

\* C17. post_run_func is called only after an attempt whose child left an
\* empty standard error, only after the 'done processing' line of that
\* attempt, and at most once in a call of run: the frames of the retries
\* return without calling it again; a call of run that raises has not
\* called it.
C17_CallbackOnceAfterCleanExit ==
    /\ [](InCall => callbacks <= 1)
    /\ [](cmd_pc = "raised" => callbacks = 0)
    /\ [](callbacks >= 1 =>
            /\ cmd_pc \in {"unwind", "returned"}
            /\ raised = "none"
            /\ outcomes[Len(outcomes)] = Clean
            /\ last_child.stderr = <<>>
            /\ printed[Len(printed)] = "done processing")
    /\ [][callbacks' > callbacks =>
             /\ cmd_pc = "done_printed"
             /\ args.post_run_func
             /\ callbacks = 0
             /\ last_child.stderr = <<>>
             /\ printed # <<>> /\ printed[Len(printed)] = "done processing"]_vars

\* the frames of two retries have returned after the one call of post_run_func
C17_Witness ==
    /\ cmd_pc = "returned"
    /\ callbacks = 1
    /\ CountOf(printed, "Retrying") = 2
    /\ CountOf(printed, "done processing") = 1
    /\ frames = 0

\* where run goes when a child has exited, from the text of its standard
\* error and the state of the object alone
BranchOf(stderr) ==
    IF stderr = <<>> THEN "done_printed"
    ELSE IF /\ ReferenceCategory(stderr) \in args.exceptions_to_retry_on
            /\ args.retry_count > retried_count
         THEN "attempt"
         ELSE "raised"

----------------------------------------------------------------------------
(* The claims on the start and the stop of the watcher.                    *)

\* self.stop() and the raise of lines 56-58
NoFolderPath == {"err_stop_lock", "err_stop_print", "err_stop_set", "err_raise"}

\* C19. A watcher started without organization_id whose base directory has no
\* subdirectory goes to the raise and ends there: it sets the signal, the
\* "initialized" line is never printed, it is never in WaitingForFile or
\* Tailing, it opens no file, and it does not hold print_lock once it has
\* failed. This is the only way the thread fails: with the log file missing
\* the watcher stays in WaitingForFile until the file is there or the signal
\* is set.
C19_NoFolderFailsAndStops ==
    /\ [][(wpc = "resolve" /\ wpc' # "resolve" /\ listed' = "none")
             => wpc' = "err_stop_lock"]_vars
    /\ [](listed = "none" =>
            /\ ~organization_id
            /\ wpc \in NoFolderPath \cup {"failed"}
            /\ ~initialized_printed
            /\ ~opened
            /\ forwarded = <<>>)
    /\ [](wpc = "failed" =>
            /\ listed = "none"
            /\ stop_event
            /\ print_lock[MainProcess] # "watcher")
    /\ [][(wpc \in WaitingForFile) =>
             \/ wpc' \in WaitingForFile
             \/ wpc' = "open" /\ log_exists
             \/ wpc' = "done" /\ stop_event]_vars
    /\ (listed = "none") ~> (wpc = "failed")

\* the watcher has failed on its own: nobody called stop, the signal is set
C19_Witness ==
    /\ wpc = "failed"
    /\ listed = "none"
    /\ stop_calls = 0
    /\ stop_event
    /\ stop_notices = 1
    /\ print_lock[MainProcess] # "watcher"

\* C20. The stop notice is the last line of the watcher on the sink: once a
\* stop notice has been printed, the watcher thread prints no 'DTLog>>> '
\* line and no "initialized" line.
C20_NothingAfterStopNotice ==
    [][stop_notices >= 1 =>
          /\ forwarded' = forwarded
          /\ initialized_printed' = initialized_printed]_vars

====
